---- MODULE Spec2Model ----
(***************************************************************************)
(* Fallom TypeScript SDK: the trace module's session context store         *)
(* (AsyncLocalStorage scope + process-wide fallback slot), trace.span and  *)
(* its fire-and-forget delivery (sendSpan), the OTEL span processor and    *)
(* the Vercel AI SDK wrappers (generateText, generateObject, streamText,   *)
(* streamObject), the two JSON.stringify replacers that redact payloads,   *)
(* the template rendering of the prompts module (replaceVariables),        *)
(* models.get with its bounded lookup and fallback, and the evals module   *)
(* (init, evaluate, compareModels and their upload).                       *)
(*                                                                         *)
(* One action is one synchronous run of a handler on the single-threaded   *)
(* event loop.  An asynchronous chain ("task") is a sequence of such runs; *)
(* runs of different chains interleave arbitrarily.                        *)
(***************************************************************************)
EXTENDS Integers, Sequences, FiniteSets

\* ------------------------------------------------------------------ bounds
\* At most MaxScopes runWithSession scopes are active at once (all chains).
MaxScopes == 2
\* At most MaxSends span sends are in flight at once.
MaxSends == 1
\* At most MaxShutdowns shutdown calls await sdk.shutdown() at once.
MaxShutdowns == 1

\* ------------------------------------------------------------ input values
Tasks == {"A", "B"}
ConfigKeys == {"k1", "k2"}
SessionIds == {"s1", "s2"}
\* The sessions callers identify themselves as: (configKey, sessionId) pairs.
Sessions == {[configKey |-> "k1", sessionId |-> "s1"],
             [configKey |-> "k2", sessionId |-> "s2"]}
\* trace.init inputs: the apiKey option and FALLOM_API_KEY.
ApiKeyOptions == {"undefined", "key-opt"}
ApiKeyEnv == {"undefined", "key-env"}
\* trace.init inputs: the baseUrl option and FALLOM_BASE_URL.
BaseUrlOptions == {"undefined", "url-opt"}
BaseUrlEnv == {"undefined", "url-env"}
DefaultBaseUrl == "https://spans.fallom.com"
\* trace.init inputs: the captureContent option and FALLOM_CAPTURE_CONTENT
\* (lower-cased).
CaptureOptions == {"undefined", "true", "false"}
CaptureEnv == {"undefined", "true", "false", "0", "no"}
\* An option that was not passed (undefined).
Undefined == "undefined"
\* span() options: an explicit configKey / sessionId, or none.
SpanKeyOptions == {"undefined", "", "k2"}
SpanSessionOptions == {"undefined", "s1"}
\* span() data: a plain object, or one JSON.stringify throws on.
SpanData == {"plain", "circular"}
Slots == 1..MaxSends

\* interface SessionContext { configKey; sessionId }
SessionContext == [configKey : ConfigKeys, sessionId : SessionIds]
\* null / undefined where a SessionContext is expected.
null == [configKey |-> "null", sessionId |-> "null"]
Ctx(k, s) == [configKey |-> k, sessionId |-> s]

\* JavaScript truthiness of an optional string.
Truthy(x) == x # Undefined /\ x # "" /\ x # "null"
\* a || b on optional strings.
Or(a, b) == IF Truthy(a) THEN a ELSE b

Serializable(d) == d # "circular"

VARIABLES
  sessionStorage,   \* per chain: the stack of AsyncLocalStorage stores it runs in
  fallbackSession,  \* module-level fallback slot (null when unset)
  initialized,      \* module state
  apiKey,           \* module state ("null" when unset)
  sdk,              \* TRUE once a NodeSDK object exists
  baseUrl,          \* module state
  captureContent,   \* module state
  shutdowns,        \* the shutdown calls awaiting sdk.shutdown()
  sends,            \* per slot: an in-flight sendSpan call, or NoSend
  own,              \* history: per chain, the contexts its own scopes bound or set
  last,             \* history: the last operation and what its caller observed
  fallbackTraceContext, \* tracing core: the process-wide trace context slot
  promptContext,    \* prompts module: the one-shot prompt linkage slot
  calls,            \* per chain: its wrapped LLM call, from start to the span handed over
  pendingPrompt,    \* history: the prompt fetched since the last wrapped call started
  redaction,        \* the last application of a JSON.stringify replacer
  rendering,        \* the last application of replaceVariables
  lookup,           \* models.get: the call in progress and its outcome
  evalsModule,      \* evals: let _apiKey, _initialized
  evalRun           \* evals: the evaluate or compareModels call in progress

\* let apiKey, baseUrl, initialized, captureContent, sdk; and the shutdown
\* calls that have not written initialized yet.
moduleState == <<initialized, apiKey, sdk, baseUrl, captureContent, shutdowns>>

\* State of the wrappers, the prompts module, the helpers and models.get.
wrapVars == <<fallbackTraceContext, promptContext, calls, pendingPrompt>>
evalVars == <<evalsModule, evalRun>>
auxVars == <<wrapVars, redaction, rendering, lookup, evalVars>>

vars == <<sessionStorage, fallbackSession, initialized, apiKey, sdk, baseUrl, captureContent,
          shutdowns, sends, own, last, auxVars>>

NoSend == [state |-> "free", attempts |-> 0, promise |-> "none", handled |-> FALSE]

\* started: the operation started an exporter and the instrumentation.
NoOp == [op |-> "none", task |-> "-", result |-> "-", ctx |-> null, arg |-> null,
         optK |-> Undefined, optS |-> Undefined, send |-> NoSend, started |-> FALSE]

\* ------------------------------------------------------------ JSON values
\* A value met by a JSON.stringify replacer, by what the replacers look at: its
\* type, its length (characters of a string, items of an array, bytes), and
\* whether a string starts with "data:image/".  text is "raw" for content and
\* the placeholder's text for a placeholder; chars is the number a placeholder
\* states.  "Buffer" is an object whose type property is "Buffer".
Leaf(type, n, img) ==
  [type |-> type, length |-> n, dataImage |-> img, text |-> "raw", chars |-> 0]
Str(n) == Leaf("string", n, FALSE)
DataImage(n) == Leaf("string", n, TRUE)
Placeholder(txt, len, n) ==
  [type |-> "string", length |-> len, dataImage |-> FALSE, text |-> txt, chars |-> n]

\* The strings the replacers return.
Omitted == Placeholder("[omitted]", 9, 0)
ImageOmitted == Placeholder("[base64 image omitted]", 22, 0)
BinaryOmitted == Placeholder("[binary data omitted]", 21, 0)
\* The number of decimal digits of n (lengths stay below 100000).
Digits(n) == IF n < 10 THEN 1 ELSE IF n < 100 THEN 2 ELSE IF n < 1000 THEN 3
             ELSE IF n < 10000 THEN 4 ELSE 5
\* `[large string omitted: ${value.length} chars]`
LargeOmitted(n) == Placeholder("[large string omitted: n chars]", 30 + Digits(n), n)

\* sanitizeForLogging's "over 10KB" threshold.
LargeString == 10000

StringLengths == {0, 50, 1000, 1001, 10000, 10001, 20000}
JsonValues ==
  {Str(n) : n \in StringLengths}
    \cup {DataImage(n) : n \in {50, 20000}}
    \cup {Leaf("Uint8Array", 50, FALSE), Leaf("Buffer", 50, FALSE),
          Leaf("number", 0, FALSE), Leaf("array", 3, FALSE),
          Leaf("object", 0, FALSE), Leaf("null", 0, FALSE)}
\* Property names a replacer is called with ("" for the root).
JsonKeys == {"", "prompt", "content", "image", "rawResponse", "rawCall"}

NoRedaction == [profile |-> "none", key |-> "", value |-> Leaf("null", 0, FALSE),
                out |-> Leaf("null", 0, FALSE), applied |-> FALSE]

\* ---------------------------------------------------------------- templates
\* At most MaxTokens tokens in a template.
MaxTokens == 2

\* A template is a sequence of tokens: literal text without braces, or a brace
\* expression {{inner}} whose inner text is a name, padded with spaces or not.
Lit(txt) == [kind |-> "lit", text |-> txt, padded |-> FALSE]
Hole(name, padded) == [kind |-> "hole", text |-> name, padded |-> padded]
HoleNames == {"name", "id", "constructor", "__defineGetter__", "user-name"}
\* \w+ : letters, digits and underscore only.
IsWord(name) == name \in {"name", "id", "constructor", "__defineGetter__"}
Tokens == {Lit("Hello "), Lit("!")} \cup {Hole(n, pd) : n \in HoleNames, pd \in BOOLEAN}
Templates == UNION {[1..n -> Tokens] : n \in 0..MaxTokens}

\* The values a variable is given, with String(value).
VarValues == {[type |-> "string", str |-> "John"], [type |-> "number", str |-> "42"],
              [type |-> "undefined", str |-> "undefined"]}
String(v) == v.str
\* The variables argument: undefined, or an object with some of these keys.
VarKeys == {"name", "user-name"}
VariableMaps ==
  {[given |-> FALSE, map |-> <<>>]}
    \cup {[given |-> TRUE, map |-> m] :
            m \in UNION {[D -> VarValues] : D \in SUBSET VarKeys}}
\* Properties every object inherits from Object.prototype.
ObjectPrototypeKeys ==
  {"constructor", "toString", "toLocaleString", "valueOf", "hasOwnProperty",
   "isPrototypeOf", "propertyIsEnumerable", "__proto__",
   "__defineGetter__", "__defineSetter__", "__lookupGetter__", "__lookupSetter__"}
\* String(Object.prototype[key]): the constructor, the object __proto__ reads, or
\* one of the native methods.
InheritedText(key) ==
  CASE key = "constructor" -> "function Object() { [native code] }"
    [] key = "__proto__" -> "[object Object]"
    [] OTHER -> "function " \o key \o "() { [native code] }"

NoRendering == [template |-> <<>>, variables |-> [given |-> FALSE, map |-> <<>>],
                out |-> <<>>, called |-> FALSE]

\* ------------------------------------------------------------ wrapped calls
\* interface TraceContext: traceId, spanId, optional parentSpanId.
nullTrace == [traceId |-> "null", spanId |-> "null", parentSpanId |-> "null"]
TraceContexts ==
  {[traceId |-> "T1", spanId |-> "S1", parentSpanId |-> "P1"],
   [traceId |-> "T1", spanId |-> "S1", parentSpanId |-> Undefined]}
\* generateHexId(32) and generateHexId(16): any of the ids it can draw.
HexIds32 == {"h32a", "h32b"}
HexIds16 == {"h16a", "h16b"}

\* The linkage prompts.get / prompts.getAB leave for the next call
\* (promptVersion 0 and variantIndex -1: not set).
NoPrompt == [promptKey |-> Undefined, promptVersion |-> 0, abTestKey |-> Undefined,
             variantIndex |-> -1]
PromptContexts ==
  {[promptKey |-> "onboarding", promptVersion |-> 1, abTestKey |-> Undefined,
    variantIndex |-> -1],
   [promptKey |-> "greeting", promptVersion |-> 2, abTestKey |-> "ab-test",
    variantIndex |-> 0]}

\* The wrappers of the Vercel AI SDK that are modelled.
Methods == {"generateText", "generateObject", "streamText", "streamObject"}
\* The wrappers that return at once and hand their span when the stream ends.
StreamMethods == {"streamText", "streamObject"}
\* params.prompt of a wrapped call; a bigint makes JSON.stringify throw.
PromptValues == {Str(50), Str(20000), DataImage(50), Leaf("Uint8Array", 50, FALSE),
                 Leaf("bigint", 0, FALSE)}
\* How the wrapped aiModule call settles: resolved (with usage, without usage,
\* with a result JSON.stringify throws on) or rejected.  (A call whose stream
\* failed after the call resolved has the outcome "streamReject".)
Outcomes == {"ok", "okNoUsage", "okBigint", "reject"}
\* The same, with results whose text or object is a data:image string or a
\* string over the large-string threshold.
PayloadOutcomes == Outcomes \cup {"okImage", "okLong"}

RequestAttr == "fallom.raw.request"
ResponseAttr == "fallom.raw.response"
UsageAttr == "fallom.raw.usage"

\* modelId when params.model is a plain string.
ModelId == Str(6)
\* The object serialized into fallom.raw.request, by property.
NoPayload == [prompt |-> Leaf("null", 0, FALSE), model |-> Leaf("null", 0, FALSE)]
\* The object serialized into fallom.raw.response, by property: text for
\* generateText and streamText, object for generateObject and streamObject.
NoResponse == [text |-> Leaf("null", 0, FALSE), object |-> Leaf("null", 0, FALSE)]

\* What sendTrace is handed (the fields the claims are about).
NoSpan == [status |-> "-", config_key |-> "null", session_id |-> "null",
           trace_id |-> "null", span_id |-> "null", parent_span_id |-> "null",
           attributes |-> {}, request |-> NoPayload, response |-> NoResponse,
           prompt |-> NoPrompt]

\* One call of a wrapper: the locals of the async function (prompt, capture,
\* traceId, spanId, parentSpanId), what the caller got (result), the spans
\* handed to sendTrace (handed, span), and for the claims the state the call
\* started in (init, expect, atStart: the trace context ambient at that time,
\* scope: the session store of the chain at that time) and the trace context
\* it read (ambient).
NoCall == [state |-> "idle", method |-> "-", prompt |-> Leaf("null", 0, FALSE),
           sessionCtx |-> null, scope |-> null, init |-> FALSE, traced |-> FALSE, capture |-> FALSE,
           atStart |-> nullTrace, ambient |-> nullTrace, traceId |-> "null", spanId |-> "null",
           parentSpanId |-> "null", minted |-> <<"null", "null">>, expect |-> NoPrompt,
           outcome |-> "-", result |-> "-", handed |-> 0, span |-> NoSpan]

\* ----------------------------------------------------------------- models.get
\* Session ids models.get is called with.
LookupSessionIds == {"session-1", "session-2", "user-123-convo-456", "b"}
\* Configuration keys: one the service knows, one it does not.
KnownConfigKey == "my-config"
LookupConfigKeys == {"my-config", "no-such-config"}
\* options.fallback: not passed, or a model name.
Fallbacks == {"undefined", "gpt-4o-mini", "gpt-4o"}
\* The snapshot of my-config: variants in their fixed order.
Variants == <<[variantIndex |-> 0, weight |-> 70, payload |-> "gpt-4o"],
              [variantIndex |-> 1, weight |-> 30, payload |-> "claude-3-5-sonnet"]>>
\* The resolution buckets are reduced to.
Resolution == 1000000

NoLookup == [state |-> "idle", cached |-> FALSE, configKey |-> "-", sessionId |-> "-",
             fallback |-> Undefined, failure |-> "none", result |-> "-",
             fromFallback |-> FALSE]

\* ------------------------------------------------------------------- evals
\* AVAILABLE_METRICS
AVAILABLE_METRICS ==
  {"answer_relevancy", "hallucination", "toxicity", "faithfulness", "completeness"}
\* The keys the reasoning of an EvalResult gets: the metrics asked for, and
\* "error" when the model call failed.
ReasoningKeys == AVAILABLE_METRICS \cup {"accuracy", "error"}
\* The score fields of an EvalResult.
ScoreKeys == {"answerRelevancy", "hallucination", "toxicity", "faithfulness", "completeness"}

\* Dataset items, the datasets passed as lists, and a dataset passed by its key
\* (items: what Fallom stores under the key).
Item1 == [input |-> "q1", output |-> "a1"]
Item2 == [input |-> "q2", output |-> "a2"]
Datasets == {<<>>, <<Item1>>, <<Item1, Item2>>, <<Item2, Item1>>}
DatasetInputs ==
  {[key |-> FALSE, items |-> d] : d \in Datasets} \cup {[key |-> TRUE, items |-> <<Item2>>]}
\* The metrics option: lists of metric names, one with a name that is no metric.
MetricLists ==
  {<<"answer_relevancy">>, <<"toxicity", "answer_relevancy">>, <<"toxicity", "accuracy">>}
\* What a judge call does: answers with a score, answers without one, fails.
JudgeOutcomes == {"score", "noScore", "fail"}
\* The models option of compareModels (model slugs).
ModelLists == {<<>>, <<"model-a">>, <<"model-a", "model-b">>}

\* No evaluate or compareModels call yet.  results: the results of evaluate;
\* modelResults: per tested model its results; current: the results of the
\* model under test; uploads: the calls of _uploadResults this call made;
\* denied: datasetFromFallom threw because evals was not initialized;
\* judged (history): per result of evaluate what its judge calls did.
\* state: resolving (awaiting resolveDataset), evaluating (awaiting a judge),
\* uploading (evaluate awaiting _uploadResults), evaluated (compareModels
\* awaiting the nested evaluate, which has returned), models (awaiting a model
\* or a judge), uploadingAll (compareModels awaiting _uploadResults).
NoRun == [op |-> "none", state |-> "idle", nested |-> FALSE, fromKey |-> FALSE,
          denied |-> FALSE, dataset |-> <<>>, metrics |-> <<>>, skipUpload |-> FALSE,
          includeProduction |-> FALSE, models |-> <<>>, results |-> <<>>,
          judged |-> <<>>, modelResults |-> <<>>, current |-> <<>>, uploads |-> 0]

Top(stack) == stack[Len(stack)]
Pop(stack) == SubSeq(stack, 1, Len(stack) - 1)
SetTop(stack, v) == [stack EXCEPT ![Len(stack)] = v]

\* sessionStorage.getStore() on chain t (null outside every scope).
getStore(t) == IF Len(sessionStorage[t]) > 0 THEN Top(sessionStorage[t]) ELSE null

ActiveScopes == Len(sessionStorage["A"]) + Len(sessionStorage["B"])

CoreInit ==
  /\ sessionStorage = [t \in Tasks |-> <<>>]
  /\ fallbackSession = null
  /\ initialized = FALSE
  /\ apiKey = "null"
  /\ sdk = FALSE
  /\ baseUrl = DefaultBaseUrl
  /\ captureContent = TRUE
  /\ shutdowns = 0
  /\ sends = [i \in Slots |-> NoSend]
  /\ own = [t \in Tasks |-> <<>>]
  /\ last = NoOp

WrapInit ==
  /\ fallbackTraceContext = nullTrace
  /\ promptContext = NoPrompt
  /\ calls = [t \in Tasks |-> NoCall]
  /\ pendingPrompt = NoPrompt

EvalsInit ==
  /\ evalsModule = [initialized |-> FALSE, apiKey |-> "null"]
  /\ evalRun = NoRun

Init ==
  /\ CoreInit /\ WrapInit /\ EvalsInit
  /\ redaction = NoRedaction
  /\ rendering = NoRendering
  /\ lookup = NoLookup

\* ------------------------------------------------------------ ContextStore

\* getSession(): sessionStorage.getStore() || fallbackSession || undefined
getSessionFallbackFirst(t) ==
  IF fallbackSession # null THEN fallbackSession ELSE getStore(t)
getSession(t) ==
  IF getStore(t) # null THEN getStore(t) ELSE fallbackSession

\* setSession, first half: the store of the calling chain is updated in place.
storeAfterSetGlobal(t, k, s) ==
  [u \in Tasks |->
     IF Len(sessionStorage[u]) > 0 THEN SetTop(sessionStorage[u], Ctx(k, s))
     ELSE sessionStorage[u]]
storeAfterSet(t, k, s) ==
  IF getStore(t) # null
  THEN [sessionStorage EXCEPT ![t] = SetTop(sessionStorage[t], Ctx(k, s))]
  ELSE sessionStorage

\* setSession, second half: the module-level fallback is always overwritten.
fallbackAfterSetUnscopedOnly(t, k, s) ==
  IF getStore(t) # null THEN fallbackSession ELSE Ctx(k, s)
fallbackAfterSet(t, k, s) == Ctx(k, s)

setSession(t, k, s) ==
  /\ sessionStorage' = storeAfterSet(t, k, s)
  /\ fallbackSession' = fallbackAfterSet(t, k, s)
  /\ own' = IF Len(own[t]) > 0 THEN [own EXCEPT ![t] = SetTop(own[t], Ctx(k, s))]
            ELSE own
  /\ last' = [NoOp EXCEPT !.op = "setSession", !.task = t, !.ctx = Ctx(k, s)]
  /\ UNCHANGED <<auxVars, moduleState, sends>>

\* runWithSession: sessionStorage.run({configKey, sessionId}, fn), entering fn.
storeAfterRunReplace(t, k, s) ==
  IF Len(sessionStorage[t]) > 0
  THEN [sessionStorage EXCEPT ![t] = <<Ctx(k, s)>>]
  ELSE [sessionStorage EXCEPT ![t] = Append(sessionStorage[t], Ctx(k, s))]
storeAfterRun(t, k, s) ==
  [sessionStorage EXCEPT ![t] = Append(sessionStorage[t], Ctx(k, s))]

runWithSession(t, k, s) ==
  /\ ActiveScopes < MaxScopes
  /\ sessionStorage' = storeAfterRun(t, k, s)
  /\ own' = [own EXCEPT ![t] = Append(own[t], Ctx(k, s))]
  /\ last' = [NoOp EXCEPT !.op = "runWithSession", !.task = t, !.ctx = Ctx(k, s)]
  /\ UNCHANGED <<auxVars, fallbackSession, moduleState, sends>>

\* runWithSession: fn returns, the scope ends and the enclosing store is back.
runReturn(t) ==
  /\ Len(own[t]) > 0
  /\ sessionStorage' = [sessionStorage EXCEPT ![t] =
                          IF Len(sessionStorage[t]) > 0 THEN Pop(sessionStorage[t])
                          ELSE sessionStorage[t]]
  /\ own' = [own EXCEPT ![t] = Pop(own[t])]
  /\ last' = [NoOp EXCEPT !.op = "runReturn", !.task = t]
  /\ UNCHANGED <<auxVars, fallbackSession, moduleState, sends>>

getSessionCall(t) ==
  /\ last' = [NoOp EXCEPT !.op = "getSession", !.task = t, !.ctx = getSession(t)]
  /\ UNCHANGED <<auxVars, sessionStorage, fallbackSession, moduleState, sends, own>>

\* clearSession(): fallbackSession = null, the scope's store is out of reach.
clearSessionAndStore(t) ==
  /\ fallbackSession' = null
  /\ sessionStorage' = [sessionStorage EXCEPT ![t] = <<>>]
  /\ last' = [NoOp EXCEPT !.op = "clearSession", !.task = t]
  /\ UNCHANGED <<auxVars, moduleState, sends, own>>
clearSession(t) ==
  /\ fallbackSession' = null
  /\ last' = [NoOp EXCEPT !.op = "clearSession", !.task = t]
  /\ UNCHANGED <<auxVars, sessionStorage, moduleState, sends, own>>

\* ---------------------------------------------------------- init / shutdown

\* trace.init(options): a no-op once initialized; the module state is assigned
\* before the API key is checked; throws without an API key.
traceInitNoGuard(optKey, envKey, optUrl, envUrl, optCapture, envCapture) ==
  LET key == Or(optKey, Or(envKey, "null")) IN
  /\ apiKey' = key
  /\ baseUrl' = Or(optUrl, Or(envUrl, DefaultBaseUrl))
  /\ captureContent' = IF envCapture \in {"false", "0", "no"} THEN FALSE
                       ELSE IF optCapture = Undefined THEN TRUE
                       ELSE optCapture = "true"
  /\ initialized' = (initialized \/ Truthy(key))
  /\ sdk' = (sdk \/ Truthy(key))
  /\ last' = [NoOp EXCEPT !.op = "init", !.started = Truthy(key),
                !.result = IF Truthy(key) THEN "returned" ELSE "throw:NoApiKey"]
  /\ UNCHANGED <<auxVars, sessionStorage, fallbackSession, shutdowns, sends, own>>
traceInitFlagFirst(optKey, envKey, optUrl, envUrl, optCapture, envCapture) ==
  IF initialized
  THEN /\ last' = [NoOp EXCEPT !.op = "init", !.result = "returned"]
       /\ UNCHANGED <<auxVars, sessionStorage, fallbackSession, moduleState, sends, own>>
  ELSE LET key == Or(optKey, Or(envKey, "null")) IN
       /\ apiKey' = key
       /\ baseUrl' = Or(optUrl, Or(envUrl, DefaultBaseUrl))
       /\ captureContent' = IF envCapture \in {"false", "0", "no"} THEN FALSE
                            ELSE IF optCapture = Undefined THEN TRUE
                            ELSE optCapture = "true"
       /\ initialized' = TRUE
       /\ sdk' = (sdk \/ Truthy(key))
       /\ last' = [NoOp EXCEPT !.op = "init", !.started = Truthy(key),
                     !.result = IF Truthy(key) THEN "returned" ELSE "throw:NoApiKey"]
       /\ UNCHANGED <<auxVars, sessionStorage, fallbackSession, shutdowns, sends, own>>
traceInit(optKey, envKey, optUrl, envUrl, optCapture, envCapture) ==
  IF initialized
  THEN /\ last' = [NoOp EXCEPT !.op = "init", !.result = "returned"]
       /\ UNCHANGED <<auxVars, sessionStorage, fallbackSession, moduleState, sends, own>>
  ELSE LET key == Or(optKey, Or(envKey, "null")) IN
       /\ apiKey' = key
       /\ baseUrl' = Or(optUrl, Or(envUrl, DefaultBaseUrl))
       /\ captureContent' = IF envCapture \in {"false", "0", "no"} THEN FALSE
                            ELSE IF optCapture = Undefined THEN TRUE
                            ELSE optCapture = "true"
       /\ initialized' = Truthy(key)
       /\ sdk' = (sdk \/ Truthy(key))
       /\ last' = [NoOp EXCEPT !.op = "init", !.started = Truthy(key),
                     !.result = IF Truthy(key) THEN "returned" ELSE "throw:NoApiKey"]
       /\ UNCHANGED <<auxVars, sessionStorage, fallbackSession, shutdowns, sends, own>>

\* shutdown() up to its await: without an sdk it returns at once, with one it
\* calls sdk.shutdown() and waits.
shutdown ==
  /\ sdk => shutdowns < MaxShutdowns
  /\ shutdowns' = IF sdk THEN shutdowns + 1 ELSE shutdowns
  /\ last' = [NoOp EXCEPT !.op = "shutdown",
                          !.result = IF sdk THEN "pending" ELSE "returned"]
  /\ UNCHANGED <<auxVars, sessionStorage, fallbackSession, initialized, apiKey, sdk, baseUrl,
                 captureContent, sends, own>>

\* sdk.shutdown() settles and shutdown() runs on: initialized = false after a
\* flush that succeeded; a flush that failed rejects shutdown() before the
\* assignment.
shutdownSettled(ok) ==
  /\ shutdowns > 0
  /\ shutdowns' = shutdowns - 1
  /\ initialized' = IF ok THEN FALSE ELSE initialized
  /\ last' = [NoOp EXCEPT !.op = "shutdown",
                          !.result = IF ok THEN "returned" ELSE "throw:shutdown"]
  /\ UNCHANGED <<auxVars, sessionStorage, fallbackSession, apiKey, sdk, baseUrl,
                 captureContent, sends, own>>

\* --------------------------------------------------------- span and sendSpan

\* sendSpan's catch block: the error is swallowed, the call ends, no retry.
sendSpanCatchRetry(rec) ==
  [rec EXCEPT !.state = "inflight", !.attempts = rec.attempts + 1]
sendSpanCatch(rec) ==
  [rec EXCEPT !.state = "done", !.promise = "fulfilled"]

\* sendSpan after `await fetch` resolved: clearTimeout, the call ends.
sendSpanDone(rec) ==
  [rec EXCEPT !.state = "done", !.promise = "fulfilled"]

\* sendSpan up to its first await: the timer is armed, the body is serialized
\* (JSON.stringify may throw, inside the try) and handed to fetch.
sendSpanStart(d) ==
  IF Serializable(d)
  THEN [state |-> "inflight", attempts |-> 1, promise |-> "pending", handled |-> FALSE]
  ELSE sendSpanCatch([state |-> "new", attempts |-> 0, promise |-> "pending",
                      handled |-> FALSE])

\* What span() does to its caller: throws, or returns undefined.
spanResultSyncSerialize(init, configKey, sessionId, d) ==
  IF ~init THEN "throw:NotInitialized"
  ELSE IF ~Truthy(configKey) \/ ~Truthy(sessionId) THEN "throw:NoSession"
  ELSE IF ~Serializable(d) THEN "throw:Delivery"
  ELSE "returned"
spanResultNoSessionCheck(init, configKey, sessionId, d) ==
  IF ~init THEN "throw:NotInitialized" ELSE "returned"
spanResult(init, configKey, sessionId, d) ==
  IF ~init THEN "throw:NotInitialized"
  ELSE IF ~Truthy(configKey) \/ ~Truthy(sessionId) THEN "throw:NoSession"
  ELSE "returned"

\* The ids span() resolves: an explicit option first, else the context
\* (sessionStorage.getStore() || fallbackSession).
spanIdsContextFirst(t, optK, optS) ==
  LET ctx == IF getStore(t) # null THEN getStore(t) ELSE fallbackSession
  IN  Ctx(Or(ctx.configKey, optK), Or(ctx.sessionId, optS))
spanIds(t, optK, optS) ==
  LET ctx == IF getStore(t) # null THEN getStore(t) ELSE fallbackSession
  IN  Ctx(Or(optK, ctx.configKey), Or(optS, ctx.sessionId))

\* trace.span(data, options) run by chain t.
span(t, optK, optS, d) ==
  LET ids == spanIds(t, optK, optS)
      res == spanResult(initialized, ids.configKey, ids.sessionId, d)
      rec == [sendSpanStart(d) EXCEPT !.handled = TRUE]
  IN  IF res # "returned"
      THEN /\ last' = [NoOp EXCEPT !.op = "span", !.task = t, !.result = res,
                         !.optK = optK, !.optS = optS]
           /\ UNCHANGED <<auxVars, sessionStorage, fallbackSession, moduleState, sends, own>>
      ELSE /\ \/ /\ rec.state = "inflight"
                 /\ \E i \in Slots :
                      /\ sends[i] = NoSend
                      /\ \A j \in Slots : j < i => sends[j] # NoSend
                      /\ sends' = [sends EXCEPT ![i] = rec]
              \/ /\ rec.state # "inflight"
                 /\ sends' = sends
           /\ last' = [NoOp EXCEPT !.op = "span", !.task = t, !.result = res,
                         !.ctx = ids, !.optK = optK, !.optS = optS, !.send = rec]
           /\ UNCHANGED <<auxVars, sessionStorage, fallbackSession, moduleState, own>>

\* The slot after its sendSpan call moved on: discarded once the call ended.
Settle(i, rec) == [sends EXCEPT ![i] = IF rec.state = "inflight" THEN rec ELSE NoSend]

\* The collector answers: fetch resolves.
fetchResolve(i) ==
  /\ sends[i].state = "inflight"
  /\ sends' = Settle(i, sendSpanDone(sends[i]))
  /\ last' = [NoOp EXCEPT !.op = "fetchResolve", !.send = sendSpanDone(sends[i])]
  /\ UNCHANGED <<auxVars, sessionStorage, fallbackSession, moduleState, own>>

\* The transport fails: fetch rejects.
fetchReject(i) ==
  /\ sends[i].state = "inflight"
  /\ sends' = Settle(i, sendSpanCatch(sends[i]))
  /\ last' = [NoOp EXCEPT !.op = "fetchReject", !.send = sendSpanCatch(sends[i])]
  /\ UNCHANGED <<auxVars, sessionStorage, fallbackSession, moduleState, own>>

\* The 5000 ms timer fires: controller.abort() rejects the pending fetch.
timerFireNoAbort(i) ==
  /\ sends[i].state = "inflight"
  /\ sends' = sends
  /\ last' = [NoOp EXCEPT !.op = "timerFire", !.send = sends[i]]
  /\ UNCHANGED <<auxVars, sessionStorage, fallbackSession, moduleState, own>>
timerFire(i) ==
  /\ sends[i].state = "inflight"
  /\ sends' = Settle(i, sendSpanCatch(sends[i]))
  /\ last' = [NoOp EXCEPT !.op = "timerFire", !.send = sendSpanCatch(sends[i])]
  /\ UNCHANGED <<auxVars, sessionStorage, fallbackSession, moduleState, own>>

\* ------------------------------------------------- spans from instrumentation

\* fallomSpanProcessor.onStart: the attributes set on an auto-instrumented span.
onStart(t) ==
  /\ last' = [NoOp EXCEPT !.op = "onStart", !.task = t, !.ctx = getSession(t)]
  /\ UNCHANGED <<auxVars, sessionStorage, fallbackSession, moduleState, sends, own>>

\* isInitialized() of the tracing core.
isInitialized == initialized

\* ---------------------------------------------------------------- redaction

\* Keys sanitizeForLogging skips entirely.
StrippedKeys == {"rawResponse", "rawCall"}
\* sanitizeMetadataOnly's contentKeys.
contentKeys ==
  {"text", "content", "message", "messages", "object", "prompt", "system", "input",
   "output", "response", "toolCalls", "toolResults", "steps", "reasoning",
   "rawResponse", "rawCall", "body", "candidates", "parts"}
\* sanitizeMetadataOnly's "over 1KB" threshold.
LargeMetadataString == 1000

IsBinary(value) == value.type = "Uint8Array" \/ value.type = "Buffer"

\* sanitizeForLogging(key, value): the full-content replacer.
sanitizeForLoggingDenylist(key, value) ==
  IF key \in StrippedKeys \cup {"content"} THEN Omitted
  ELSE IF value.type = "string" /\ value.dataImage THEN ImageOmitted
  ELSE IF value.type = "string" /\ value.length > LargeString
       THEN LargeOmitted(value.length)
  ELSE IF IsBinary(value) THEN BinaryOmitted
  ELSE value
sanitizeForLogging(key, value) ==
  IF key \in StrippedKeys THEN Omitted
  ELSE IF value.type = "string" /\ value.dataImage THEN ImageOmitted
  ELSE IF value.type = "string" /\ value.length > LargeString
       THEN LargeOmitted(value.length)
  ELSE IF IsBinary(value) THEN BinaryOmitted
  ELSE value

\* sanitizeMetadataOnly(key, value): the metadata-only replacer.
sanitizeMetadataOnlyNoImage(key, value) ==
  IF key \in contentKeys /\ value.type = "string"
  THEN Placeholder("[content omitted: n chars]", 25 + Digits(value.length), value.length)
  ELSE IF key \in contentKeys /\ value.type = "array"
  THEN Placeholder("[content omitted: n items]", 25 + Digits(value.length), value.length)
  ELSE IF key \in contentKeys /\ value.type \in {"object", "Uint8Array", "Buffer"}
  THEN Placeholder("[content omitted]", 17, 0)
  ELSE IF value.type = "string" /\ value.length > LargeMetadataString
       THEN LargeOmitted(value.length)
  ELSE IF IsBinary(value) THEN BinaryOmitted
  ELSE value
sanitizeMetadataOnlyFullThreshold(key, value) ==
  IF key \in contentKeys /\ value.type = "string"
  THEN Placeholder("[content omitted: n chars]", 25 + Digits(value.length), value.length)
  ELSE IF key \in contentKeys /\ value.type = "array"
  THEN Placeholder("[content omitted: n items]", 25 + Digits(value.length), value.length)
  ELSE IF key \in contentKeys /\ value.type \in {"object", "Uint8Array", "Buffer"}
  THEN Placeholder("[content omitted]", 17, 0)
  ELSE IF value.type = "string" /\ value.dataImage THEN ImageOmitted
  ELSE IF value.type = "string" /\ value.length > LargeString
       THEN LargeOmitted(value.length)
  ELSE IF IsBinary(value) THEN BinaryOmitted
  ELSE value
sanitizeMetadataOnly(key, value) ==
  IF key \in contentKeys /\ value.type = "string"
  THEN Placeholder("[content omitted: n chars]", 25 + Digits(value.length), value.length)
  ELSE IF key \in contentKeys /\ value.type = "array"
  THEN Placeholder("[content omitted: n items]", 25 + Digits(value.length), value.length)
  ELSE IF key \in contentKeys /\ value.type \in {"object", "Uint8Array", "Buffer"}
  THEN Placeholder("[content omitted]", 17, 0)
  ELSE IF value.type = "string" /\ value.dataImage THEN ImageOmitted
  ELSE IF value.type = "string" /\ value.length > LargeMetadataString
       THEN LargeOmitted(value.length)
  ELSE IF IsBinary(value) THEN BinaryOmitted
  ELSE value

Profiles == {"full", "metadata"}

\* JSON.stringify(obj, replacer) reaches a property: the replacer is applied.
applyReplacer ==
  /\ redaction.profile \in Profiles /\ ~redaction.applied
  /\ redaction' = [redaction EXCEPT
                     !.applied = TRUE,
                     !.out = IF redaction.profile = "full"
                             THEN sanitizeForLogging(redaction.key, redaction.value)
                             ELSE sanitizeMetadataOnly(redaction.key, redaction.value)]
  /\ UNCHANGED <<sessionStorage, fallbackSession, moduleState, sends, own, last, evalVars,
                 wrapVars, rendering, lookup>>

\* ------------------------------------------------ tracing core and prompts

\* shouldCaptureContent() of the tracing core.
shouldCaptureContent == captureContent

\* The fallback trace context is set or cleared.
setFallbackTraceContext(tc) ==
  /\ fallbackTraceContext' = tc
  /\ UNCHANGED <<sessionStorage, fallbackSession, moduleState, sends, own, last, evalVars,
                 promptContext, calls, pendingPrompt, redaction, rendering, lookup>>

\* getTraceContextStorage().getStore() || getFallbackTraceContext(), outside
\* every trace scope.
ambientTraceContext == fallbackTraceContext

\* prompts.get / prompts.getAB resolve: the linkage is left for the next call.
promptsGet(pc) ==
  /\ promptContext' = pc
  /\ pendingPrompt' = pc
  /\ UNCHANGED <<sessionStorage, fallbackSession, moduleState, sends, own, last, evalVars,
                 fallbackTraceContext, calls, redaction, rendering, lookup>>

\* The ids a span takes from the trace context read (traceCtx may be nullTrace).
traceIdOf(traceCtx, minted) == Or(traceCtx.traceId, minted)
parentOfAmbientSpan(traceCtx) == traceCtx.spanId
parentOf(traceCtx) == traceCtx.parentSpanId

\* JSON.stringify({prompt: params?.prompt, ..., model: modelId}): no replacer.
\* Of the properties of the object, prompt and model are carried; messages and
\* system go through as prompt does, tools is sent as Object.keys(params.tools)
\* and schema as the string "provided".
requestPayload(prompt) == [prompt |-> prompt, model |-> ModelId]

\* JSON.stringify throws a TypeError on a bigint.
StringifyThrows(value) == value.type = "bigint"

\* result.text / result.object of a call that settled with this outcome (for a
\* stream, what its text / object promise gave: null when the stream failed).
ResultValue(outcome) ==
  CASE outcome = "okImage" -> DataImage(50)
    [] outcome = "okLong" -> Str(20000)
    [] outcome = "okBigint" -> Leaf("bigint", 0, FALSE)
    [] outcome = "streamReject" -> Leaf("null", 0, FALSE)
    [] OTHER -> Str(50)
\* JSON.stringify({text: result?.text, ...}) / ({object: result?.object, ...}):
\* no replacer.  Of the selected fields of the result, text / object is carried.
responsePayloadSanitized(method, outcome) ==
  IF method \in {"generateText", "streamText"}
  THEN [NoResponse EXCEPT !.text = sanitizeForLogging("text", ResultValue(outcome))]
  ELSE [NoResponse EXCEPT !.object = sanitizeForLogging("object", ResultValue(outcome))]
responsePayload(method, outcome) ==
  IF method \in {"generateText", "streamText"}
  THEN [NoResponse EXCEPT !.text = ResultValue(outcome)]
  ELSE [NoResponse EXCEPT !.object = ResultValue(outcome)]

\* ------------------------------------------------------- the AI SDK wrappers

\* The sessionCtx the wrapper used by chain t was created with.
WrapperCtx(t) == IF t = "A" THEN Ctx("k1", "s1") ELSE Ctx("k2", "s2")

\* The trace ids of a call, taken when the wrapper reads the trace context.
withTraceIds(c, traceCtx) ==
  [c EXCEPT !.traced = TRUE, !.ambient = traceCtx,
            !.traceId = traceIdOf(traceCtx, c.minted[1]),
            !.spanId = c.minted[2],
            !.parentSpanId = parentOf(traceCtx)]

\* The attributes of a span with status OK.
\* streamObject leaves the response out when neither the object nor the finish
\* reason came through.
okAttributes(method, capture, outcome) ==
  (IF capture THEN {RequestAttr} ELSE {})
    \cup (IF capture /\ ~(method = "streamObject" /\ outcome = "streamReject")
          THEN {ResponseAttr} ELSE {})
    \cup (IF outcome \notin {"okNoUsage", "streamReject"} THEN {UsageAttr} ELSE {})
\* The attributes of a span with status ERROR: generateText adds the request.
errorAttributes(method) == IF method = "generateText" THEN {RequestAttr} ELSE {}

baseSpan(c, status) ==
  [NoSpan EXCEPT !.status = status,
                 !.config_key = c.sessionCtx.configKey,
                 !.session_id = c.sessionCtx.sessionId,
                 !.trace_id = c.traceId, !.span_id = c.spanId,
                 !.parent_span_id = c.parentSpanId]
\* The span of the success path; promptCtx is what getPromptContext() returned.
okSpan(c, outcome, promptCtx) ==
  [baseSpan(c, "OK") EXCEPT
     !.attributes = okAttributes(c.method, c.capture, outcome),
     !.request = IF c.capture THEN requestPayload(c.prompt) ELSE NoPayload,
     !.response = IF ResponseAttr \in okAttributes(c.method, c.capture, outcome)
                  THEN responsePayload(c.method, outcome) ELSE NoResponse,
     !.prompt = promptCtx]
\* The span of the error path: no prompt linkage.
errorSpan(c) ==
  [baseSpan(c, "ERROR") EXCEPT
     !.attributes = errorAttributes(c.method),
     !.request = IF c.method = "generateText" THEN requestPayload(c.prompt)
                 ELSE NoPayload]

\* Building the attributes of the success path throws: with content capture on,
\* the request and the response are serialized.
buildThrows(c, outcome) ==
  c.capture /\ (StringifyThrows(c.prompt) \/ StringifyThrows(ResultValue(outcome)))

\* generateText / generateObject after `await aiModule.generate...` settled:
\* the rest of the try block, or the catch block.
finishGenerate(c, outcome) ==
  LET failed == outcome = "reject"
      thrown == ~failed /\ buildThrows(c, outcome)
      error == IF failed THEN "throw:model" ELSE "throw:sdk"
  IN  IF ~failed /\ ~thrown
      THEN [c EXCEPT !.state = "done", !.outcome = outcome, !.result = "result",
                     !.handed = 1, !.span = okSpan(c, outcome, promptContext)]
      ELSE IF c.method = "generateText" /\ StringifyThrows(c.prompt)
      THEN [c EXCEPT !.state = "done", !.outcome = outcome, !.result = "throw:sdk"]
      ELSE [c EXCEPT !.state = "done", !.outcome = outcome, !.result = error,
                     !.handed = 1, !.span = errorSpan(c)]

\* streamText / streamObject after `await aiModule.stream...` settled.
finishStreamCall(c, outcome) ==
  IF outcome = "reject"
  THEN [c EXCEPT !.state = "done", !.outcome = outcome, !.result = "throw:model"]
  ELSE IF ~isInitialized
  THEN [c EXCEPT !.state = "done", !.outcome = outcome, !.result = "result"]
  ELSE [withTraceIds(c, ambientTraceContext) EXCEPT
          !.state = IF outcome = "okNoUsage" THEN "done" ELSE "streaming",
          !.outcome = outcome, !.result = "result"]

\* A wrapper is called by chain t: the async function runs up to its await.
wrappedCall(t, method, prompt, hexT, hexS) ==
  LET c0 == [NoCall EXCEPT !.state = "awaiting", !.method = method, !.prompt = prompt,
                           !.sessionCtx = WrapperCtx(t), !.init = isInitialized,
                           !.minted = <<hexT, hexS>>, !.expect = pendingPrompt,
                           !.atStart = ambientTraceContext, !.scope = getStore(t)]
      c1 == IF method \in StreamMethods THEN [c0 EXCEPT !.capture = shouldCaptureContent]
            ELSE IF ~isInitialized THEN c0
            ELSE [withTraceIds(c0, ambientTraceContext) EXCEPT
                    !.capture = shouldCaptureContent]
  IN  /\ calls[t].state \in {"idle", "done"}
      /\ calls' = [calls EXCEPT ![t] = c1]
      /\ pendingPrompt' = NoPrompt
      /\ UNCHANGED <<sessionStorage, fallbackSession, moduleState, sends, own, last, evalVars,
                     fallbackTraceContext, promptContext, redaction, rendering, lookup>>

\* The aiModule call of chain t settles and the wrapper runs on: to its end, or
\* for streamText and streamObject to the point where the result is returned.
settle(t, outcome) ==
  LET c == calls[t]
      c1 == IF c.method \in StreamMethods THEN finishStreamCall(c, outcome)
            ELSE IF ~c.traced
            THEN [c EXCEPT !.state = "done", !.outcome = outcome,
                           !.result = IF outcome = "reject" THEN "throw:model"
                                      ELSE "result"]
            ELSE finishGenerate(c, outcome)
  IN  /\ c.state = "awaiting"
      /\ calls' = [calls EXCEPT ![t] = c1]
      /\ promptContext' = IF c1.span.status = "OK" THEN NoPrompt ELSE promptContext
      /\ UNCHANGED <<sessionStorage, fallbackSession, moduleState, sends, own, last, evalVars,
                     fallbackTraceContext, pendingPrompt, redaction, rendering, lookup>>

\* The promises of a streamed result have all settled: the then callback
\* builds and hands over the span, or throws into the catch callback.
streamDone(t) ==
  LET c == calls[t]
      c1 == IF buildThrows(c, c.outcome)
            THEN [c EXCEPT !.state = "done", !.handed = 1, !.span = errorSpan(c)]
            ELSE [c EXCEPT !.state = "done", !.handed = 1,
                           !.span = okSpan(c, c.outcome, promptContext)]
  IN  /\ c.state = "streaming"
      /\ calls' = [calls EXCEPT ![t] = c1]
      /\ promptContext' = IF c1.span.status = "OK" THEN NoPrompt ELSE promptContext
      /\ UNCHANGED <<sessionStorage, fallbackSession, moduleState, sends, own, last, evalVars,
                     fallbackTraceContext, pendingPrompt, redaction, rendering, lookup>>

\* The stream of a streamed result fails: its promises reject, each is turned
\* into null by its own catch, and the then callback runs as after a success,
\* with no usage to report.
streamFailed(t) ==
  LET c == [calls[t] EXCEPT !.outcome = "streamReject"]
      c1 == IF buildThrows(c, c.outcome)
            THEN [c EXCEPT !.state = "done", !.handed = 1, !.span = errorSpan(c)]
            ELSE [c EXCEPT !.state = "done", !.handed = 1,
                           !.span = okSpan(c, c.outcome, promptContext)]
  IN  /\ calls[t].state = "streaming"
      /\ calls' = [calls EXCEPT ![t] = c1]
      /\ promptContext' = IF c1.span.status = "OK" THEN NoPrompt ELSE promptContext
      /\ UNCHANGED <<sessionStorage, fallbackSession, moduleState, sends, own, last, evalVars,
                     fallbackTraceContext, pendingPrompt, redaction, rendering, lookup>>

\* ----------------------------------------------------------------- models.get

\* createHash("md5").update(sessionId).digest(), its first four bytes as the
\* two 16-bit halves of readUInt32BE(0).
Md5Head(sessionId) ==
  CASE sessionId = "session-1" -> <<51119, 11573>>
    [] sessionId = "session-2" -> <<9209, 32319>>
    [] sessionId = "user-123-convo-456" -> <<6239, 31118>>
    [] sessionId = "b" -> <<37611, 24574>>

\* hashSessionId(sessionId): readUInt32BE(0) % 1_000_000, on the halves.
hashSessionId(sessionId) ==
  LET hi == Md5Head(sessionId)[1]
      lo == Md5Head(sessionId)[2]
  IN  ((((hi * 256) % Resolution) * 256) + lo) % Resolution

RECURSIVE Cumulative(_, _)
Cumulative(variants, i) ==
  IF i = 0 THEN 0 ELSE Cumulative(variants, i - 1) + variants[i].weight

\* The variant whose cumulative-weight interval, normalized against the total
\* weight and scaled to the resolution, contains the bucket.
selectVariant(bucket, variants) ==
  LET total == Cumulative(variants, Len(variants))
      i == CHOOSE j \in 1..Len(variants) :
             /\ Resolution * Cumulative(variants, j - 1) <= bucket * total
             /\ bucket * total < Resolution * Cumulative(variants, j)
  IN  variants[i]

assign(sessionId, variants) == selectVariant(hashSessionId(sessionId), variants)

\* A failed lookup through the resilient entry point: the fallback when one was
\* passed, else the failure is surfaced.
recoverSurfaceTimeout(l, failure) ==
  IF l.fallback # Undefined /\ failure # "timeout"
  THEN [l EXCEPT !.state = "returned", !.failure = failure, !.result = l.fallback,
                 !.fromFallback = TRUE]
  ELSE [l EXCEPT !.state = "returned", !.failure = failure,
                 !.result = "throw:AssignmentFailure", !.fromFallback = FALSE]
recover(l, failure) ==
  IF l.fallback # Undefined
  THEN [l EXCEPT !.state = "returned", !.failure = failure, !.result = l.fallback,
                 !.fromFallback = TRUE]
  ELSE [l EXCEPT !.state = "returned", !.failure = failure,
                 !.result = "throw:AssignmentFailure", !.fromFallback = FALSE]

\* The lookup succeeds: the session's variant from the real distribution.
resolveVariant(l) ==
  [l EXCEPT !.state = "returned", !.failure = "none",
            !.result = assign(l.sessionId, Variants).payload, !.fromFallback = FALSE]

\* The lookup with a snapshot at hand.
lookupCached(l) ==
  IF l.configKey = KnownConfigKey THEN resolveVariant(l) ELSE recover(l, "unknownKey")

\* models.get(configKey, sessionId, {fallback}): answered from the cached
\* snapshot, or a fetch bounded by the timeout is awaited.
modelsGet(configKey, sessionId, fallback) ==
  LET l == [NoLookup EXCEPT !.cached = lookup.cached, !.configKey = configKey,
                            !.sessionId = sessionId, !.fallback = fallback]
  IN  /\ lookup.state \in {"idle", "returned"}
      /\ lookup' = IF lookup.cached THEN lookupCached(l)
                   ELSE [l EXCEPT !.state = "fetching"]
      /\ UNCHANGED <<sessionStorage, fallbackSession, moduleState, sends, own, last, evalVars,
                     wrapVars, redaction, rendering>>

\* The configuration service answers in time: the snapshot is installed.
lookupFetched ==
  /\ lookup.state = "fetching"
  /\ lookup' = lookupCached([lookup EXCEPT !.cached = TRUE])
  /\ UNCHANGED <<sessionStorage, fallbackSession, moduleState, sends, own, last, evalVars,
                 wrapVars, redaction, rendering>>

\* The configuration service is unreachable: the fetch fails.
lookupFailed ==
  /\ lookup.state = "fetching"
  /\ lookup' = recover(lookup, "snapshotMissing")
  /\ UNCHANGED <<sessionStorage, fallbackSession, moduleState, sends, own, last, evalVars,
                 wrapVars, redaction, rendering>>

\* The timeout of the lookup expires before any answer.
lookupTimeout ==
  /\ lookup.state = "fetching"
  /\ lookup' = recover(lookup, "timeout")
  /\ UNCHANGED <<sessionStorage, fallbackSession, moduleState, sends, own, last, evalVars,
                 wrapVars, redaction, rendering>>

\* The background sync swaps the snapshot in, or loses it.
configSync(present) ==
  /\ lookup.state # "fetching"
  /\ lookup.cached # present
  /\ lookup' = [lookup EXCEPT !.cached = present]
  /\ UNCHANGED <<sessionStorage, fallbackSession, moduleState, sends, own, last, evalVars,
                 wrapVars, redaction, rendering>>

\* ---------------------------------------------------------------- rendering

\* key in variables: an own property, or one inherited from Object.prototype.
In(key, variables) == key \in DOMAIN variables \/ key \in ObjectPrototypeKeys
\* String(variables[key])
Lookup(key, variables) ==
  IF key \in DOMAIN variables THEN String(variables[key]) ELSE InheritedText(key)

\* The callback of template.replace on one token: a brace expression the
\* pattern /\{\{(\s*\w+\s*)\}\}/g matches is replaced when its trimmed name is
\* in variables; everything else stays as it is.
replaceToken(tok, variables) ==
  IF tok.kind = "hole" /\ IsWord(tok.text) /\ In(tok.text, variables)
  THEN Lit(Lookup(tok.text, variables))
  ELSE tok

\* replaceVariables(template, variables)
replaceVariables(template, variables) ==
  IF ~variables.given THEN template
  ELSE [i \in 1..Len(template) |-> replaceToken(template[i], variables.map)]

render ==
  /\ ~rendering.called
  /\ rendering' = [rendering EXCEPT
                     !.called = TRUE,
                     !.out = replaceVariables(rendering.template, rendering.variables)]
  /\ UNCHANGED <<sessionStorage, fallbackSession, moduleState, sends, own, last, evalVars,
                 wrapVars, redaction, lookup>>

\* -------------------------------------------------------------------- evals

\* evals.init(options): the key is assigned before it is checked; throws
\* without a key (the initialized flag is then left as it was).
evalsInit(optKey, envKey) ==
  LET key == Or(optKey, Or(envKey, "null")) IN
  /\ evalsModule' = [initialized |-> (evalsModule.initialized \/ Truthy(key)),
                     apiKey |-> key]
  /\ UNCHANGED <<sessionStorage, fallbackSession, moduleState, sends, own, last,
                 wrapVars, redaction, rendering, lookup, evalRun>>

\* resolveDataset(datasetInput) up to its first await: a list is returned as it
\* is; for a key datasetFromFallom throws when evals is not initialized and
\* otherwise fetches the dataset (items: what Fallom stores under the key).
resolveDataset(datasetInput) ==
  [items |-> datasetInput.items,
   denied |-> datasetInput.key /\ ~evalsModule.initialized]

\* metric.replace(/_([a-z])/g, (_, c) => c.toUpperCase())
camelMetric(metric) ==
  CASE metric = "answer_relevancy" -> "answerRelevancy"
    [] OTHER -> metric

\* runGEval(metric, ...): the judge's score and reasoning, or an exception
\* (always one for a name METRIC_PROMPTS does not have).
runGEval(metric, outcome) ==
  CASE metric \notin AVAILABLE_METRICS ->
         [threw |-> TRUE, score |-> Undefined, reasoning |-> Undefined]
    [] outcome = "score" -> [threw |-> FALSE, score |-> "0.9", reasoning |-> "sound"]
    [] outcome = "noScore" ->
         [threw |-> FALSE, score |-> Undefined, reasoning |-> Undefined]
    [] OTHER -> [threw |-> TRUE, score |-> Undefined, reasoning |-> Undefined]

\* The EvalResult an item starts with.
newResult(item, output, model, production) ==
  [input |-> item.input, output |-> output, model |-> model, isProduction |-> production,
   scores |-> [k \in ScoreKeys |-> Undefined],
   reasoning |-> [m \in ReasoningKeys |-> Undefined]]

\* The try/catch around one judge call: the score and the reasoning are
\* stored, or the error text is stored as the reasoning.
judgeMetricZeroScore(result, metric, outcome) ==
  LET judged == runGEval(metric, outcome) IN
  IF judged.threw
  THEN [result EXCEPT !.scores[camelMetric(metric)] = "0",
                      !.reasoning[metric] = "Error: judge call failed"]
  ELSE [result EXCEPT !.scores[camelMetric(metric)] = judged.score,
                      !.reasoning[metric] = judged.reasoning]
judgeMetric(result, metric, outcome) ==
  LET judged == runGEval(metric, outcome) IN
  IF judged.threw
  THEN [result EXCEPT !.reasoning[metric] = "Error: judge call failed"]
  ELSE [result EXCEPT !.scores[camelMetric(metric)] = judged.score,
                      !.reasoning[metric] = judged.reasoning]

\* for (const metric of metrics) { try { ... } catch { ... } }, from the j-th
\* metric on; outcomes[j] is what the j-th judge call does.
RECURSIVE judgeMetrics(_, _, _, _)
judgeMetrics(result, metrics, outcomes, j) ==
  IF j > Len(metrics) THEN result
  ELSE judgeMetrics(judgeMetric(result, metrics[j], outcomes[j]), metrics, outcomes, j + 1)

\* The options compareModels passes to the nested production evaluate.
productionOptionsNoSkip(dataset, metrics) ==
  [dataset |-> dataset, metrics |-> metrics, skipUpload |-> FALSE]
productionOptions(dataset, metrics) ==
  [dataset |-> dataset, metrics |-> metrics, skipUpload |-> TRUE]

\* evaluate returns its results: to the caller, or to compareModels, which
\* awaits them.
evaluateReturn(run) ==
  [run EXCEPT !.state = IF run.nested THEN "evaluated" ELSE "returned"]

\* evaluate after its loop, in the run that pushed the last result (or found
\* the dataset empty): unless _skipUpload is set or evals is not initialized
\* the upload request is issued and awaited; otherwise evaluate returns.
evaluateEnd(run) ==
  IF ~run.skipUpload /\ evalsModule.initialized
  THEN [run EXCEPT !.uploads = @ + 1, !.state = "uploading"]
  ELSE evaluateReturn(run)

\* compareModels after its loop over the models, in the run that stored the
\* last model's results: when evals is initialized the one upload of all
\* results is issued and awaited; otherwise compareModels returns.
compareEnd(run) ==
  IF evalsModule.initialized
  THEN [run EXCEPT !.uploads = @ + 1, !.state = "uploadingAll"]
  ELSE [run EXCEPT !.state = "returned"]

\* compareModels reaches its loop over the models: with an empty dataset the
\* inner loop does nothing and every model's results are stored empty at once;
\* with nothing to wait for the lines after the loop run on.
testModels(run) ==
  LET looping == [run EXCEPT !.state = "models",
                             !.modelResults = IF Len(run.dataset) = 0
                                              THEN [k \in 1..Len(run.models) |-> <<>>]
                                              ELSE <<>>]
  IN  IF Len(looping.modelResults) = Len(looping.models) THEN compareEnd(looping)
      ELSE looping

\* evaluate(options) up to `await resolveDataset(datasetInput)`.
evaluateStart(run, options) ==
  [run EXCEPT !.state = "resolving", !.dataset = options.dataset,
              !.metrics = options.metrics, !.skipUpload = options.skipUpload]

\* evaluate with its dataset resolved: the metrics are validated (an unknown
\* name throws), the results start empty and the loop awaits its first judge
\* call; with an empty dataset the lines after the loop run on.
evaluateLoop(run) ==
  IF \E j \in 1..Len(run.metrics) : run.metrics[j] \notin AVAILABLE_METRICS
  THEN [run EXCEPT !.state = "thrown"]
  ELSE IF Len(run.dataset) = 0 THEN evaluateEnd(run)
  ELSE [run EXCEPT !.state = "evaluating"]

\* evaluate(options) is called.
evaluateCall(datasetInput, metrics, skipUpload) ==
  LET ds == resolveDataset(datasetInput)
      run == [NoRun EXCEPT !.op = "evaluate", !.fromKey = datasetInput.key,
                           !.denied = ds.denied]
  IN  /\ evalRun.state \in {"idle", "returned", "thrown"}
      /\ evalRun' = evaluateStart(run, [dataset |-> ds.items, metrics |-> metrics,
                                        skipUpload |-> skipUpload])
      /\ UNCHANGED <<sessionStorage, fallbackSession, moduleState, sends, own, last,
                     wrapVars, redaction, rendering, lookup, evalsModule>>

\* compareModels(options) is called: up to `await resolveDataset(datasetInput)`.
compareModelsCall(datasetInput, metrics, models, includeProduction) ==
  LET ds == resolveDataset(datasetInput) IN
  /\ evalRun.state \in {"idle", "returned", "thrown"}
  /\ evalRun' = [NoRun EXCEPT !.op = "compareModels", !.state = "resolving",
                              !.fromKey = datasetInput.key, !.denied = ds.denied,
                              !.dataset = ds.items, !.metrics = metrics,
                              !.models = models, !.includeProduction = includeProduction]
  /\ UNCHANGED <<sessionStorage, fallbackSession, moduleState, sends, own, last,
                 wrapVars, redaction, rendering, lookup, evalsModule>>

\* The promise of resolveDataset settles and the caller runs on.  A list always
\* resolves (so does the list the nested evaluate is passed); a key resolves
\* when the fetch succeeded.  evaluate goes on to its loop; compareModels calls
\* the nested evaluate when includeProduction is set, and goes on to its models
\* otherwise.
datasetResolved(fetched) ==
  LET run == evalRun
      failed == ~run.nested /\ (run.denied \/ (run.fromKey /\ ~fetched))
  IN  /\ run.state = "resolving"
      /\ evalRun' =
           IF failed THEN [run EXCEPT !.state = "thrown"]
           ELSE IF run.op = "evaluate" \/ run.nested THEN evaluateLoop(run)
           ELSE IF run.includeProduction
           THEN evaluateStart([run EXCEPT !.nested = TRUE],
                              productionOptions(run.dataset, run.metrics))
           ELSE testModels(run)
      /\ UNCHANGED <<sessionStorage, fallbackSession, moduleState, sends, own, last,
                     wrapVars, redaction, rendering, lookup, evalsModule>>

\* One round of evaluate's loop: the next item is judged on every metric and
\* its result is pushed; after the last item the lines after the loop run on.
evaluateItem(outcomes) ==
  LET i == Len(evalRun.results) + 1
      item == evalRun.dataset[i]
      result == judgeMetrics(newResult(item, item.output, "production", TRUE),
                             evalRun.metrics, outcomes, 1)
      pushed == [evalRun EXCEPT !.results = Append(@, result),
                                !.judged = Append(@, outcomes)]
  IN  /\ evalRun.state = "evaluating"
      /\ i <= Len(evalRun.dataset)
      /\ Len(outcomes) = Len(evalRun.metrics)
      /\ evalRun' = IF i = Len(evalRun.dataset) THEN evaluateEnd(pushed) ELSE pushed
      /\ UNCHANGED <<sessionStorage, fallbackSession, moduleState, sends, own, last,
                     wrapVars, redaction, rendering, lookup, evalsModule>>

\* The nested evaluate has returned and compareModels runs on with the
\* production results.
compareResume ==
  /\ evalRun.state = "evaluated"
  /\ evalRun' = testModels(evalRun)
  /\ UNCHANGED <<sessionStorage, fallbackSession, moduleState, sends, own, last,
                 wrapVars, redaction, rendering, lookup, evalsModule>>

\* One round of the loop over the dataset for the model under test: the model
\* generates an output, which is judged on every metric, or fails, which gives
\* an error result; after the last item the model's results are stored, and
\* after the last model the lines after the loop run on.
compareItem(generated, outcomes) ==
  LET model == evalRun.models[Len(evalRun.modelResults) + 1]
      item == evalRun.dataset[Len(evalRun.current) + 1]
      result == IF generated
                THEN judgeMetrics(newResult(item, "generated", model, FALSE),
                                  evalRun.metrics, outcomes, 1)
                ELSE [newResult(item, "Error: model call failed", model, FALSE)
                        EXCEPT !.reasoning["error"] = "model call failed"]
      current == Append(evalRun.current, result)
      stored == [evalRun EXCEPT !.modelResults = Append(@, current), !.current = <<>>]
  IN  /\ evalRun.state = "models"
      /\ Len(evalRun.modelResults) < Len(evalRun.models)
      /\ Len(evalRun.current) < Len(evalRun.dataset)
      /\ Len(outcomes) = Len(evalRun.metrics)
      /\ evalRun' = IF Len(current) < Len(evalRun.dataset)
                    THEN [evalRun EXCEPT !.current = current]
                    ELSE IF Len(stored.modelResults) = Len(stored.models)
                    THEN compareEnd(stored)
                    ELSE stored
      /\ UNCHANGED <<sessionStorage, fallbackSession, moduleState, sends, own, last,
                     wrapVars, redaction, rendering, lookup, evalsModule>>

\* The upload request is answered, or fails: _uploadResults catches every
\* error and returns either way, and the caller returns its results.  (A
\* request that is never answered leaves the call waiting: the fetch has no
\* timeout.)
uploadSettled ==
  /\ evalRun.state \in {"uploading", "uploadingAll"}
  /\ evalRun' = IF evalRun.state = "uploading" THEN evaluateReturn(evalRun)
                ELSE [evalRun EXCEPT !.state = "returned"]
  /\ UNCHANGED <<sessionStorage, fallbackSession, moduleState, sends, own, last,
                 wrapVars, redaction, rendering, lookup, evalsModule>>

\* -------------------------------------------------------------------- Next

Next ==
  \/ \E ok \in ApiKeyOptions, ek \in ApiKeyEnv :
       traceInit(ok, ek, Undefined, Undefined, Undefined, Undefined)
  \/ shutdown
  \/ \E ok \in BOOLEAN : shutdownSettled(ok)
  \/ \E t \in Tasks, c \in Sessions : setSession(t, c.configKey, c.sessionId)
  \/ \E t \in Tasks, c \in Sessions : runWithSession(t, c.configKey, c.sessionId)
  \/ \E t \in Tasks : runReturn(t)
  \/ \E t \in Tasks : getSessionCall(t)
  \/ \E t \in Tasks : clearSession(t)
  \/ \E t \in Tasks, optK \in SpanKeyOptions, optS \in SpanSessionOptions, d \in SpanData :
       span(t, optK, optS, d)
  \/ \E i \in Slots : fetchResolve(i)
  \/ \E i \in Slots : fetchReject(i)
  \/ \E i \in Slots : timerFire(i)
  \/ \E t \in Tasks : onStart(t)

Spec == Init /\ [][Next]_vars

\* Spans recorded inside scopes: trace.span, the span processor, and chain A
\* calling a wrapped generateText whose wrapper was created for k1/s1.
ScopeNext ==
  \/ traceInit("key-opt", Undefined, Undefined, Undefined, Undefined, Undefined)
  \/ \E t \in Tasks, c \in Sessions : setSession(t, c.configKey, c.sessionId)
  \/ \E t \in Tasks, c \in Sessions : runWithSession(t, c.configKey, c.sessionId)
  \/ \E t \in Tasks : runReturn(t)
  \/ \E t \in Tasks, optK \in SpanKeyOptions, optS \in SpanSessionOptions, d \in SpanData :
       span(t, optK, optS, d)
  \/ \E i \in Slots : fetchResolve(i)
  \/ \E t \in Tasks : onStart(t)
  \/ wrappedCall("A", "generateText", Str(50), "h32a", "h16a")
  \/ \E o \in {"ok", "reject"} : settle("A", o)

ScopeSpec == Init /\ [][ScopeNext]_vars

\* trace.init over its whole input space, with shutdown and span.
InitNext ==
  \/ \E ok \in ApiKeyOptions, ek \in ApiKeyEnv, ou \in BaseUrlOptions, eu \in BaseUrlEnv,
        oc \in CaptureOptions, ec \in CaptureEnv : traceInit(ok, ek, ou, eu, oc, ec)
  \/ shutdown
  \/ \E ok \in BOOLEAN : shutdownSettled(ok)
  \/ \E t \in Tasks, c \in Sessions : setSession(t, c.configKey, c.sessionId)
  \/ \E t \in Tasks, d \in SpanData : span(t, Undefined, Undefined, d)
  \/ \E i \in Slots : fetchResolve(i)

InitSpec == Init /\ [][InitNext]_vars

\* The event loop runs every armed timer: a pending send's timer does fire.
LiveSpec == Spec /\ \A i \in Slots : WF_vars(timerFire(i))

\* The wrappers under concurrency: two chains, prompts fetched in between.
WrapNext ==
  \/ traceInit("key-opt", Undefined, Undefined, Undefined, Undefined, Undefined)
  \/ \E pc \in PromptContexts : promptsGet(pc)
  \/ \E t \in Tasks, m \in Methods : wrappedCall(t, m, Str(50), "h32a", "h16a")
  \/ \E t \in Tasks, o \in Outcomes : settle(t, o)
  \/ \E t \in Tasks : streamDone(t)

WrapSpec == Init /\ [][WrapNext]_vars

\* One chain, over the payloads and the trace contexts.
PayloadNext ==
  \/ \E oc \in CaptureOptions :
       traceInit("key-opt", Undefined, Undefined, Undefined, oc, Undefined)
  \/ shutdown
  \/ \E ok \in BOOLEAN : shutdownSettled(ok)
  \/ \E tc \in TraceContexts \cup {nullTrace} : setFallbackTraceContext(tc)
  \/ \E m \in Methods, v \in PromptValues : wrappedCall("A", m, v, "h32b", "h16b")
  \/ \E o \in PayloadOutcomes : settle("A", o)
  \/ streamDone("A")
  \/ streamFailed("A")

PayloadSpec == Init /\ [][PayloadNext]_vars

\* models.get against a configuration service that may answer, fail or hang;
\* the timeout of a pending lookup does expire.
LookupNext ==
  \/ \E k \in LookupConfigKeys, sid \in LookupSessionIds, fb \in Fallbacks :
       modelsGet(k, sid, fb)
  \/ lookupFetched
  \/ lookupFailed
  \/ lookupTimeout
  \/ \E present \in BOOLEAN : configSync(present)

LookupSpec == Init /\ [][LookupNext]_vars /\ WF_vars(lookupTimeout)

\* The replacers over their inputs: a profile, a property name and a value.
RedactionInit ==
  /\ CoreInit /\ WrapInit /\ EvalsInit
  /\ redaction \in {[profile |-> pr, key |-> k, value |-> v, out |-> v, applied |-> FALSE] :
                       pr \in Profiles, k \in JsonKeys, v \in JsonValues}
  /\ rendering = NoRendering
  /\ lookup = NoLookup

RedactionSpec == RedactionInit /\ [][applyReplacer]_vars

\* replaceVariables over its inputs: a template and the variables.
RenderInit ==
  /\ CoreInit /\ WrapInit /\ EvalsInit
  /\ redaction = NoRedaction
  /\ rendering \in {[template |-> tpl, variables |-> vs, out |-> <<>>, called |-> FALSE] :
                       tpl \in Templates, vs \in VariableMaps}
  /\ lookup = NoLookup

RenderSpec == RenderInit /\ [][render]_vars

\* evals: evaluate and compareModels, with init called at any time.
EvalsNext ==
  \/ \E ok \in ApiKeyOptions, ek \in ApiKeyEnv : evalsInit(ok, ek)
  \/ \E d \in DatasetInputs, ms \in MetricLists, skip \in BOOLEAN : evaluateCall(d, ms, skip)
  \/ \E fetched \in BOOLEAN : datasetResolved(fetched)
  \/ \E outcomes \in UNION {[1..n -> JudgeOutcomes] : n \in 1..2} : evaluateItem(outcomes)
  \/ uploadSettled
  \/ \E d \in {[key |-> FALSE, items |-> <<>>], [key |-> FALSE, items |-> <<Item1, Item2>>],
              [key |-> TRUE, items |-> <<Item2>>]},
        ms \in {<<"answer_relevancy">>, <<"accuracy">>},
        models \in ModelLists, production \in BOOLEAN :
       compareModelsCall(d, ms, models, production)
  \/ compareResume
  \/ \E generated \in BOOLEAN, outcomes \in [1..1 -> {"score", "fail"}] :
       compareItem(generated, outcomes)

EvalsSpec == Init /\ [][EvalsNext]_vars

\* ------------------------------------------------------------------ claims

InScope(t) == Len(own[t]) > 0
OwnCtx(t) == Top(own[t])
SpanHanded(t) == calls[t].handed = 1
\* The wrapped call of chain t, started in the scope the chain is still in,
\* hands its span in this step.
HandsInScope(t) ==
  /\ calls[t].state = "awaiting" /\ calls'[t].handed = 1
  /\ InScope(t) /\ calls[t].scope = OwnCtx(t)

\* C1: inside a runWithSession scope getSession returns the context that scope
\* bound (or set itself), whatever the other chain and the fallback slot hold.
C1_ScopeIsolation ==
  /\ \A t \in Tasks : InScope(t) => getSession(t) = OwnCtx(t)
  /\ (last.op = "getSession" /\ InScope(last.task)) => last.ctx = OwnCtx(last.task)

C1_Witness ==
  /\ last.op = "getSession" /\ last.task = "A"
  /\ InScope("A") /\ InScope("B")
  /\ OwnCtx("A") # OwnCtx("B")
  /\ fallbackSession = OwnCtx("B")
  /\ last.ctx = OwnCtx("A")

\* C2 as stated: every span recorded in an active scope, by trace.span or by a
\* wrapped call, carries the scope's configKey and sessionId.
C2_Original ==
  /\ []((last.op = "span" /\ last.result = "returned" /\ InScope(last.task)) =>
          last.ctx = OwnCtx(last.task))
  /\ [][\A t \in Tasks :
          HandsInScope(t) =>
            Ctx(calls'[t].span.config_key, calls'[t].span.session_id) = OwnCtx(t)]_vars

\* C2 amended: in an active scope, trace.span carries for each id the explicit
\* option when a non-empty one is passed and the scope's id otherwise; the span
\* processor tags the scope's ids; a wrapped call carries the ids of the
\* sessionCtx its wrapper was created with.
C2_SpanIds ==
  /\ (last.op = "span" /\ last.result = "returned" /\ InScope(last.task)) =>
       /\ last.ctx.configKey =
            IF Truthy(last.optK) THEN last.optK ELSE OwnCtx(last.task).configKey
       /\ last.ctx.sessionId =
            IF Truthy(last.optS) THEN last.optS ELSE OwnCtx(last.task).sessionId
  /\ (last.op = "onStart" /\ InScope(last.task)) => last.ctx = OwnCtx(last.task)
  /\ \A t \in Tasks :
       SpanHanded(t) =>
         Ctx(calls[t].span.config_key, calls[t].span.session_id) = calls[t].sessionCtx

C2_Witness ==
  /\ last.op = "span" /\ last.result = "returned"
  /\ InScope("A") /\ InScope("B") /\ last.task = "A"
  /\ last.optK = Undefined /\ last.optS = Undefined
  /\ fallbackSession # OwnCtx("A") /\ OwnCtx("B") # OwnCtx("A")
  /\ last.ctx = OwnCtx("A")
  /\ SpanHanded("A") /\ calls["A"].scope = OwnCtx("A")
  /\ calls["A"].sessionCtx # OwnCtx("A")

SetStep(t) == last'.op = "setSession" /\ last'.task = t /\ last' # last

\* C3 as stated: setSession in an active scope updates the scope's context and
\* leaves the fallback slot unchanged.
C3_Original ==
  [][\A t \in Tasks : (SetStep(t) /\ InScope(t)) =>
       /\ getStore(t)' = last'.ctx
       /\ fallbackSession' = fallbackSession]_vars

\* C3 amended: setSession always overwrites the fallback slot with the new
\* context; in an active scope it also updates that scope's context (and no
\* other chain's), with no active scope it changes nothing else.
C3_SetSession ==
  [][\A t \in Tasks : SetStep(t) =>
       /\ fallbackSession' = last'.ctx
       /\ InScope(t) => getStore(t)' = last'.ctx
       /\ ~InScope(t) => sessionStorage' = sessionStorage
       /\ \A u \in Tasks : u # t => sessionStorage'[u] = sessionStorage[u]]_vars

C3_Witness ==
  /\ last.op = "setSession" /\ InScope(last.task)
  /\ getStore(last.task) = last.ctx
  /\ fallbackSession = last.ctx
  /\ \E u \in Tasks : InScope(u) /\ getStore(u) # last.ctx

\* C4: getSession returns the active scope's context, else the fallback slot's
\* context, else nothing (null).
C4_GetSession ==
  last.op = "getSession" =>
    last.ctx = (IF InScope(last.task) THEN OwnCtx(last.task) ELSE fallbackSession)

C4_Witness ==
  /\ last.op = "getSession" /\ last.task = "A"
  /\ ~InScope("A") /\ InScope("B")
  /\ fallbackSession # null /\ fallbackSession # OwnCtx("B")
  /\ last.ctx = fallbackSession

ClearStep(t) == last'.op = "clearSession" /\ last'.task = t /\ last' # last

\* C5: clearSession resets the fallback slot only; in an active scope getSession
\* still returns the scope's context afterwards.
C5_ClearSession ==
  [][\A t \in Tasks : ClearStep(t) =>
       /\ fallbackSession' = null
       /\ sessionStorage' = sessionStorage
       /\ InScope(t) => getSession(t)' = OwnCtx(t)]_vars

C5_Witness ==
  /\ last.op = "clearSession" /\ InScope(last.task)
  /\ fallbackSession = null
  /\ getSession(last.task) = OwnCtx(last.task)

\* C6: inside an inner scope getSession returns the inner context; once the
\* inner scope has returned, getSession in the enclosing scope returns the
\* enclosing context again, also after a setSession in the inner scope.
C6_Nesting ==
  /\ last.op = "runWithSession" => getSession(last.task) = last.ctx
  /\ (last.op = "runReturn" /\ InScope(last.task)) =>
       getSession(last.task) = OwnCtx(last.task)

C6_Witness ==
  /\ last.op = "runReturn" /\ InScope(last.task)
  /\ fallbackSession # null /\ fallbackSession # OwnCtx(last.task)
  /\ getSession(last.task) = OwnCtx(last.task)

DeliveryFailed == last.op \in {"fetchReject", "timerFire"}

\* C7: with an initialized SDK and resolvable ids, span returns normally whatever
\* the transport and the serializer do, and no sendSpan promise is left rejected
\* without a handler.
C7_FailSoft ==
  /\ (/\ last.op = "span" /\ initialized
      /\ (Truthy(last.optK) \/ getSession(last.task) # null)
      /\ (Truthy(last.optS) \/ getSession(last.task) # null)) =>
       last.result = "returned"
  /\ last.send.promise = "rejected" => last.send.handled
  /\ \A i \in Slots : sends[i].promise = "rejected" => sends[i].handled

C7_Witness ==
  /\ DeliveryFailed
  /\ last.send.state = "done" /\ last.send.promise = "fulfilled" /\ last.send.handled

\* C8: a send slot changes only by span handing a new record to the transport
\* for the first time, or by the record being discarded: no second attempt
\* and nothing kept after a failure.
C8_AtMostOnce ==
  [][\A i \in Slots :
       sends'[i] # sends[i] =>
         IF sends[i] = NoSend
         THEN last'.op = "span" /\ sends'[i].attempts = 1
         ELSE sends'[i] = NoSend /\ last'.send.attempts = 1]_vars

C8_Witness ==
  /\ DeliveryFailed
  /\ last.send.attempts = 1 /\ last.send.state = "done"
  /\ \A i \in Slots : sends[i] = NoSend

\* C9: every pending send ends: it completes, fails, or is abandoned when its
\* timer fires.
C9_SendTerminates ==
  \A i \in Slots : (sends[i].state = "inflight") ~> (sends[i].state = "free")

C9_Witness ==
  /\ last.op = "timerFire" /\ last.send.state = "done"
  /\ \A i \in Slots : sends[i] = NoSend

NoContextSpan ==
  /\ last.op = "span" /\ initialized
  /\ ~InScope(last.task) /\ fallbackSession = null
  /\ last.optK = Undefined /\ last.optS = Undefined

C11_Original ==
  \A t \in Tasks :
    (SpanHanded(t) /\ ~calls[t].capture) =>
      /\ RequestAttr \notin calls[t].span.attributes
      /\ ResponseAttr \notin calls[t].span.attributes
      /\ (calls[t].span.status = "OK" /\ calls[t].outcome # "okNoUsage") =>
           UsageAttr \in calls[t].span.attributes

\* What the response payload holds for the result's text or object.
ResponseContent(t) ==
  IF calls[t].method \in {"generateText", "streamText"}
  THEN calls[t].span.response.text ELSE calls[t].span.response.object

Redacted(v) == ~v.dataImage /\ ~IsBinary(v) /\ ~(v.type = "string" /\ v.length > LargeString)

\* C12 as stated: the request payload and the response payload in a span's
\* attributes hold no data:image string, no binary payload and no string over
\* 10,000 characters.
C12_Original ==
  \A t \in Tasks :
    SpanHanded(t) =>
      /\ RequestAttr \in calls[t].span.attributes => Redacted(calls[t].span.request.prompt)
      /\ ResponseAttr \in calls[t].span.attributes => Redacted(ResponseContent(t))

\* C12 amended: no redaction is applied to either payload.  The request
\* payload holds params.prompt and the model id as the call had them, and the
\* response payload holds the result's text (generateText, streamText) or
\* object (generateObject, streamObject) as the call produced it.
C12_RawPayload ==
  \A t \in Tasks :
    SpanHanded(t) =>
      /\ RequestAttr \in calls[t].span.attributes =>
           /\ calls[t].span.request.prompt = calls[t].prompt
           /\ calls[t].span.request.model = ModelId
      /\ ResponseAttr \in calls[t].span.attributes =>
           ResponseContent(t) = ResultValue(calls[t].outcome)

\* A span whose request payload holds a data:image prompt and whose response
\* payload holds a result over 10,000 characters, both in full.
C12_Witness ==
  \E t \in Tasks :
    /\ SpanHanded(t) /\ calls[t].span.status = "OK"
    /\ RequestAttr \in calls[t].span.attributes
    /\ ResponseAttr \in calls[t].span.attributes
    /\ calls[t].prompt = DataImage(50)
    /\ calls[t].span.request.prompt = DataImage(50)
    /\ calls[t].outcome = "okLong"
    /\ ResponseContent(t) = Str(20000)

\* C13: with the SDK initialized, a wrapped call that has completed has handed
\* exactly one span to sendTrace.
C13_Original ==
  \A t \in Tasks :
    (calls[t].state = "done" /\ calls[t].init /\ isInitialized) => calls[t].handed = 1

\* C14: the caller of a wrapped call gets the result when the underlying call
\* resolved and the underlying call's own error when it rejected.
C14_Original ==
  \A t \in Tasks :
    calls[t].state = "done" =>
      calls[t].result = IF calls[t].outcome = "reject" THEN "throw:model" ELSE "result"

\* C15 as stated: with a trace context ambient the span carries its traceId and
\* has its spanId as parent_span_id; with none the traceId is minted; the
\* span_id is always minted.
C15_Original ==
  \A t \in Tasks :
    SpanHanded(t) =>
      /\ calls[t].span.span_id \in HexIds16
      /\ IF calls[t].ambient # nullTrace
         THEN /\ calls[t].span.trace_id = calls[t].ambient.traceId
              /\ calls[t].span.parent_span_id = calls[t].ambient.spanId
         ELSE calls[t].span.trace_id \in HexIds32

\* C15 amended: with a trace context ambient the span carries its traceId and
\* has the context's parentSpanId (which may be absent) as parent_span_id; with
\* none the traceId is minted and there is no parent; the span_id is always
\* minted.
C15_TraceIds ==
  \A t \in Tasks :
    SpanHanded(t) =>
      /\ calls[t].span.span_id \in HexIds16
      /\ IF calls[t].ambient # nullTrace
         THEN /\ calls[t].span.trace_id = calls[t].ambient.traceId
              /\ calls[t].span.parent_span_id = calls[t].ambient.parentSpanId
         ELSE /\ calls[t].span.trace_id \in HexIds32
              /\ calls[t].span.parent_span_id = "null"

C15_Witness ==
  \E t \in Tasks :
    /\ SpanHanded(t)
    /\ calls[t].ambient = [traceId |-> "T1", spanId |-> "S1", parentSpanId |-> "P1"]
    /\ calls[t].span.trace_id = "T1" /\ calls[t].span.parent_span_id = "P1"
    /\ calls[t].span.span_id \in HexIds16

\* C16: the span of a wrapped call carries the linkage of the prompt fetched
\* last before that call started (none when no prompt was fetched since the
\* call before it), whether the call succeeded or failed.
C16_Original ==
  \A t \in Tasks : SpanHanded(t) => calls[t].span.prompt = calls[t].expect

\* C18: models.get called with a fallback never ends in a failure: when the
\* snapshot is missing, the key is unknown or the lookup times out it returns
\* the fallback, and a pending lookup always returns.
C18_FallbackOnFailure ==
  /\ [](( lookup.state = "returned" /\ lookup.fallback # Undefined) =>
          /\ lookup.result # "throw:AssignmentFailure"
          /\ lookup.failure # "none" =>
               (lookup.result = lookup.fallback /\ lookup.fromFallback))
  /\ (lookup.state = "fetching") ~> (lookup.state = "returned")

C18_Witness ==
  /\ lookup.state = "returned" /\ lookup.failure = "timeout"
  /\ lookup.fallback = "gpt-4o-mini" /\ lookup.result = "gpt-4o-mini"
  /\ lookup.fromFallback

Supplied(name) == rendering.variables.given /\ name \in DOMAIN rendering.variables.map

\* C19: replaceVariables always returns; a placeholder {{name}} whose name is not
\* a key of the variables passed stays in the output as it was written, and one
\* whose name is a key is replaced by String(value).
C19_Original ==
  rendering.called =>
    /\ Len(rendering.out) = Len(rendering.template)
    /\ \A i \in 1..Len(rendering.template) :
         LET tok == rendering.template[i] IN
         (tok.kind = "hole" /\ IsWord(tok.text)) =>
           rendering.out[i] =
             IF Supplied(tok.text) THEN Lit(String(rendering.variables.map[tok.text]))
             ELSE tok

\* C20 as stated: under the full-content profile the replacement is the same
\* under every field name.
C20_Original ==
  (redaction.applied /\ redaction.profile = "full") =>
    \A k \in JsonKeys : sanitizeForLogging(k, redaction.value) = redaction.out

\* C20 amended: a field named rawResponse or rawCall is replaced by "[omitted]"
\* whatever its value; under every other field name the replacement is the
\* same, so it depends on the value only.
C20_KeyStripping ==
  (redaction.applied /\ redaction.profile = "full") =>
    IF redaction.key \in {"rawResponse", "rawCall"}
    THEN redaction.out = Omitted
    ELSE \A k \in JsonKeys \ {"rawResponse", "rawCall"} :
           sanitizeForLogging(k, redaction.value) = redaction.out

C20_Witness ==
  /\ redaction.applied /\ redaction.profile = "full"
  /\ redaction.key = "rawResponse" /\ redaction.value = Str(50)
  /\ redaction.out = Omitted

\* The placeholders of the metadata-only profile for a denylisted field.
ContentOmittedChars(n) == Placeholder("[content omitted: n chars]", 25 + Digits(n), n)
ContentOmittedItems(n) == Placeholder("[content omitted: n items]", 25 + Digits(n), n)
ContentOmitted == Placeholder("[content omitted]", 17, 0)

\* C21 as stated: under the metadata-only profile the value of a denylisted
\* field is replaced by a placeholder whatever its type: "[content omitted: n
\* chars]" for a string, "[content omitted: n items]" for an array and
\* "[content omitted]" otherwise; it is never emitted verbatim.
C21_Original ==
  (redaction.applied /\ redaction.profile = "metadata" /\ redaction.key \in contentKeys) =>
    /\ redaction.out # redaction.value
    /\ redaction.out =
         IF redaction.value.type = "string" THEN ContentOmittedChars(redaction.value.length)
         ELSE IF redaction.value.type = "array"
              THEN ContentOmittedItems(redaction.value.length)
         ELSE ContentOmitted

\* C22 as stated: a data:image string is replaced by the same fixed placeholder
\* under both profiles and under every field name.
C22_Original ==
  (redaction.applied /\ redaction.value.type = "string" /\ redaction.value.dataImage) =>
    redaction.out = ImageOmitted

\* C22 amended: a data:image string is replaced by "[base64 image omitted]" under
\* both profiles, except under the field names rawResponse and rawCall of the
\* full-content profile, where it becomes "[omitted]", and under a denylisted
\* field name of the metadata-only profile, where it becomes "[content omitted:
\* n chars]"; it is never emitted verbatim.
C22_DataImage ==
  (redaction.applied /\ redaction.value.type = "string" /\ redaction.value.dataImage) =>
    /\ redaction.out # redaction.value
    /\ redaction.out =
         IF redaction.profile = "full" /\ redaction.key \in {"rawResponse", "rawCall"}
         THEN Omitted
         ELSE IF redaction.profile = "metadata" /\ redaction.key \in contentKeys
         THEN ContentOmittedChars(redaction.value.length)
         ELSE ImageOmitted

C22_Witness ==
  /\ redaction.applied /\ redaction.profile = "metadata"
  /\ redaction.key = "image" /\ redaction.value = DataImage(50)
  /\ redaction.out = ImageOmitted

\* The threshold of a profile and the strings the length rule is about.
Threshold(profile) == IF profile = "full" THEN 10000 ELSE 1000
PlainString(value) == value.type = "string" /\ ~value.dataImage /\ value.text = "raw"

\* C23 as stated: under the full-content profile a string longer than 10,000
\* characters becomes a placeholder stating its length and a shorter string that
\* is not a data:image string is unchanged; under the metadata-only profile the
\* same holds with 1,000 for fields not on the denylist.
C23_Original ==
  (/\ redaction.applied /\ redaction.value.type = "string"
   /\ (redaction.profile = "metadata" => redaction.key \notin contentKeys)) =>
    IF redaction.value.length > Threshold(redaction.profile)
    THEN redaction.out.text = "[large string omitted: n chars]"
         /\ redaction.out.chars = redaction.value.length
    ELSE ~redaction.value.dataImage => redaction.out = redaction.value

\* C23 amended: the length rule holds for strings that are not data:image
\* strings, under every field name but rawResponse and rawCall in the
\* full-content profile and under every field name not on the denylist in the
\* metadata-only profile.
C23_LengthRule ==
  (/\ redaction.applied /\ PlainString(redaction.value)
   /\ (redaction.profile = "full" => redaction.key \notin {"rawResponse", "rawCall"})
   /\ (redaction.profile = "metadata" => redaction.key \notin contentKeys)) =>
    IF redaction.value.length > Threshold(redaction.profile)
    THEN redaction.out.text = "[large string omitted: n chars]"
         /\ redaction.out.chars = redaction.value.length
    ELSE redaction.out = redaction.value

C23_Witness ==
  /\ redaction.applied /\ redaction.profile = "metadata"
  /\ redaction.key = "image" /\ redaction.value = Str(1001)
  /\ redaction.out = LargeOmitted(1001)

\* trace.init called with neither the apiKey option nor FALLOM_API_KEY.
InitWithoutKey ==
  \E ou \in BaseUrlOptions, eu \in BaseUrlEnv, oc \in CaptureOptions, ec \in CaptureEnv :
    traceInit(Undefined, Undefined, ou, eu, oc, ec)

\* C24: trace.init on an uninitialized SDK with no API key available throws the
\* missing-key error and leaves the SDK uninitialized; trace.span on an
\* uninitialized SDK throws the not-initialized error; neither sends anything.
C24_MissingKey ==
  [][/\ (~initialized /\ InitWithoutKey) =>
          (~initialized' /\ last'.result = "throw:NoApiKey" /\ sends' = sends)
     /\ (~initialized /\ last'.op = "span" /\ last' # last) =>
          (last'.result = "throw:NotInitialized" /\ sends' = sends)]_vars

\* A span refused after an init that failed for want of a key (the failed init
\* cleared the key a former init had stored).
C24_Witness ==
  /\ last.op = "span" /\ last.result = "throw:NotInitialized"
  /\ sdk /\ apiKey = "null" /\ ~initialized
  /\ \A i \in Slots : sends[i] = NoSend

\* The wrapped call of chain t failed: the aiModule call rejected, the stream it
\* returned did, or the caller of the wrapper was thrown at.
CallFailed(t) ==
  \/ calls[t].outcome \in {"reject", "streamReject"}
  \/ calls[t].result \in {"throw:model", "throw:sdk"}

\* C25 as stated: the span a wrapper hands over has status ERROR exactly when the
\* wrapped call failed and OK exactly when it succeeded, streaming or not.
C25_Original ==
  \A t \in Tasks :
    SpanHanded(t) =>
      /\ calls[t].span.status = "ERROR" <=> CallFailed(t)
      /\ calls[t].span.status = "OK" <=> ~CallFailed(t)

\* C26 as stated: the trace id and the parent span id of a span are those of the
\* trace context ambient when the wrapped call started (a fresh trace id when
\* none was), whatever was done to the fallback trace context while the call
\* was in flight.
C26_Original ==
  \A t \in Tasks :
    SpanHanded(t) =>
      /\ calls[t].span.trace_id =
           IF Truthy(calls[t].atStart.traceId) THEN calls[t].atStart.traceId
           ELSE calls[t].minted[1]
      /\ calls[t].span.parent_span_id = calls[t].atStart.parentSpanId

\* C27 as stated: after a trace.init that was given the captureContent option and
\* succeeded, the capture flag equals the option, whatever
\* FALLOM_CAPTURE_CONTENT holds.
C27_Original ==
  [][\A ok \in ApiKeyOptions, ek \in ApiKeyEnv, ou \in BaseUrlOptions, eu \in BaseUrlEnv,
       oc \in CaptureOptions \ {Undefined}, ec \in CaptureEnv :
       (~initialized /\ traceInit(ok, ek, ou, eu, oc, ec) /\ initialized') =>
         captureContent' = (oc = "true")]_vars

\* trace.init called with any options and environment.
InitCalled ==
  \E ok \in ApiKeyOptions, ek \in ApiKeyEnv, ou \in BaseUrlOptions, eu \in BaseUrlEnv,
     oc \in CaptureOptions, ec \in CaptureEnv : traceInit(ok, ek, ou, eu, oc, ec)

\* C28: trace.init called while the SDK is initialized (after a successful init
\* and before shutdown) returns and changes nothing: the API key, the base URL,
\* the capture flag, the initialized flag and the SDK object are as before, and
\* no exporter or instrumentation is started.
C28_InitOnce ==
  [][(initialized /\ InitCalled) =>
       /\ moduleState' = moduleState
       /\ last'.result = "returned" /\ ~last'.started]_vars

\* A repeated init: it returned without starting anything and the module state
\* of the first init is in place.
C28_Witness ==
  /\ last.op = "init" /\ last.result = "returned" /\ ~last.started
  /\ initialized /\ sdk /\ apiKey = "key-env" /\ baseUrl = "url-opt" /\ ~captureContent

\* A compareModels call is under way.
Comparing ==
  /\ evalRun.op = "compareModels"
  /\ evalRun.state \in {"resolving", "evaluating", "uploading", "evaluated", "models"}

\* C29: one compareModels call uploads at most once; the upload is made by
\* compareModels itself, in the step that completes the results of the last
\* model (every model evaluated on every item, and the production outputs when
\* included), and only when evals is initialized at that time; the nested
\* production evaluate does not upload.
C29_SingleUpload ==
  /\ [](evalRun.op = "compareModels" => evalRun.uploads <= 1)
  /\ [][(Comparing /\ evalRun'.uploads # evalRun.uploads) =>
          /\ evalRun.uploads = 0 /\ evalRun'.uploads = 1
          /\ evalsModule.initialized
          /\ evalRun'.state = "uploadingAll"
          /\ Len(evalRun'.modelResults) = Len(evalRun'.models)
          /\ \A k \in 1..Len(evalRun'.models) :
               Len(evalRun'.modelResults[k]) = Len(evalRun'.dataset)
          /\ evalRun'.includeProduction =>
               Len(evalRun'.results) = Len(evalRun'.dataset)]_vars
  /\ [][(Comparing /\ ~evalsModule.initialized) => evalRun'.uploads = evalRun.uploads]_vars

\* A comparison of two models with the production outputs, uploaded once.
C29_Witness ==
  /\ evalRun.op = "compareModels" /\ evalRun.state = "returned"
  /\ evalRun.includeProduction /\ Len(evalRun.results) = 2
  /\ Len(evalRun.modelResults) = 2
  /\ evalRun.uploads = 1

\* C30: evaluate called with a list of items and valid metrics does not throw
\* and returns one result per item, in the order of the dataset, whatever the
\* judge calls do; a metric whose judge call failed has no score and has an
\* error text as its reasoning in that item's result, and a metric whose judge
\* call gave a score has that score, in the same result.
C30_OneResultPerItem ==
  (evalRun.op = "evaluate" /\ ~evalRun.fromKey) =>
    /\ evalRun.state = "thrown" =>
         \E j \in 1..Len(evalRun.metrics) : evalRun.metrics[j] \notin AVAILABLE_METRICS
    /\ evalRun.state = "returned" =>
         /\ Len(evalRun.results) = Len(evalRun.dataset)
         /\ \A i \in 1..Len(evalRun.dataset) :
              /\ evalRun.results[i].input = evalRun.dataset[i].input
              /\ evalRun.results[i].output = evalRun.dataset[i].output
              /\ \A j \in 1..Len(evalRun.metrics) :
                   LET metric == evalRun.metrics[j]
                       key == IF metric = "answer_relevancy" THEN "answerRelevancy"
                              ELSE metric
                   IN  /\ evalRun.judged[i][j] = "fail" =>
                            /\ evalRun.results[i].scores[key] = Undefined
                            /\ evalRun.results[i].reasoning[metric] =
                                 "Error: judge call failed"
                       /\ evalRun.judged[i][j] = "score" =>
                            evalRun.results[i].scores[key] = "0.9"

\* Two items evaluated on two metrics: the first judge call of the first item
\* failed, and the calls after it were still made.
C30_Witness ==
  /\ evalRun.op = "evaluate" /\ evalRun.state = "returned"
  /\ evalRun.dataset = <<Item2, Item1>> /\ Len(evalRun.results) = 2
  /\ evalRun.metrics = <<"toxicity", "answer_relevancy">>
  /\ evalRun.judged[1] = <<"fail", "score">> /\ evalRun.judged[2] = <<"score", "fail">>
  /\ evalRun.results[1].scores["toxicity"] = Undefined
  /\ evalRun.results[1].scores["answerRelevancy"] = "0.9"
  /\ evalRun.results[2].scores["toxicity"] = "0.9"

====
